---- MODULE Spec2Model ----
(***************************************************************************)
(* A model of bazelisk.py: the version directive                           *)
(* (decide_which_bazel_version_to_use), the resolution of 'latest' with    *)
(* its one-hour cache (resolve_version_label_to_number,                    *)
(* resolve_latest_version), and the download, authentication and promotion *)
(* of the binary (download_bazel_into_directory, verify_authenticity).     *)
(*                                                                         *)
(* Strings are sequences of one-character strings, so that strip(), the    *)
(* LooseVersion parse and comparisons are computed as Python computes them.*)
(***************************************************************************)
EXTENDS Integers, Sequences, FiniteSets, TLC

\* ------------------------------------------------------------------ bounds

\* Directories on the path from the current directory up to the filesystem root.
MaxDepth == 2
\* Entries in one response of the releases endpoint.
MaxCatalog == 3
\* Requests to the releases endpoint in one behaviour.
MaxUrlopens == 2
\* The wall clock stops advancing here (seconds).
MaxTime == 3602
\* Pieces copyfileobj writes for the binary, and for its signature.
BinaryChunks == 2
SignatureChunks == 1
\* Invocations after the first that one process makes, one after the other.
MaxRuns == 2
\* Digits of the number of a release candidate.
MaxRcDigits == 2
\* Interrupt signals that reach the launcher in one run.
MaxInterrupts == 2

\* ------------------------------------------------------- program constants

ONE_HOUR == 3600
AUTHENTICATION_FAILURE_EXIT_CODE == 2

\* ------------------------------------------------------------------ strings

Digits == <<"0", "1", "2", "3", "4", "5", "6", "7", "8", "9">>
Lowercase == <<"a", "b", "c", "d", "e", "f", "g", "h", "i", "j", "k", "l", "m",
               "n", "o", "p", "q", "r", "s", "t", "u", "v", "w", "x", "y", "z">>
Whitespace == {" ", "\t", "\n", "\r"}

IsDigit(c) == \E i \in 1..Len(Digits) : Digits[i] = c
IsLower(c) == \E i \in 1..Len(Lowercase) : Lowercase[i] = c
DigitVal(c) == (CHOOSE i \in 1..Len(Digits) : Digits[i] = c) - 1

\* The string literals of the program.
LATEST == <<"l", "a", "t", "e", "s", "t">>
EMPTY == << >>

RECURSIVE LStrip(_)
LStrip(s) ==
    IF s # << >> /\ s[1] \in Whitespace THEN LStrip(Tail(s)) ELSE s

RECURSIVE RStrip(_)
RStrip(s) ==
    IF s # << >> /\ s[Len(s)] \in Whitespace
    THEN RStrip(SubSeq(s, 1, Len(s) - 1))
    ELSE s

\* str.strip(): leading and trailing whitespace removed.
Strip(s) == RStrip(LStrip(s))

\* int(s) of a run of digits.
RECURSIVE IntOf(_)
IntOf(s) ==
    IF s = << >> THEN 0
    ELSE IntOf(SubSeq(s, 1, Len(s) - 1)) * 10 + DigitVal(s[Len(s)])

\* ------------------------------------------------------------- LooseVersion

\* The class of a character under component_re = (\d+ | [a-z]+ | \.).
CharClass(c) ==
    IF IsDigit(c) THEN "digit"
    ELSE IF IsLower(c) THEN "alpha"
    ELSE IF c = "." THEN "dot"
    ELSE "other"

\* Length of the piece component_re.split() cuts at the head of s: one dot, or
\* the longest run of characters of the class of s[1].
RECURSIVE RunLength(_, _)
RunLength(s, cls) ==
    IF s = << >> \/ CharClass(s[1]) # cls THEN 0
    ELSE IF cls = "dot" THEN 1
    ELSE 1 + RunLength(Tail(s), cls)

\* component_re.split(vstring), the empty pieces left out.
RECURSIVE SplitComponents(_)
SplitComponents(s) ==
    IF s = << >> THEN << >>
    ELSE LET n == RunLength(s, CharClass(s[1]))
         IN  <<SubSeq(s, 1, n)>> \o SplitComponents(SubSeq(s, n + 1, Len(s)))

\* One component: int(x) where that works, else the string.
Component(x) ==
    IF \A i \in 1..Len(x) : IsDigit(x[i])
    THEN [type |-> "int", int |-> IntOf(x), str |-> << >>]
    ELSE [type |-> "str", int |-> 0, str |-> x]

\* LooseVersion.parse: the components other than '.', integers converted.
LooseVersionParse(vstring) ==
    LET pieces == SelectSeq(SplitComponents(vstring), LAMBDA x : x # <<".">>)
    IN  [i \in 1..Len(pieces) |-> Component(pieces[i])]

\* The characters of the model in code-point order.
CodePoints == <<"\t", "\n", "\r", " ", ".">> \o Digits \o Lowercase
Ord(c) == CHOOSE i \in 1..Len(CodePoints) : CodePoints[i] = c

\* Python's str < str: by code point, a proper prefix first.
RECURSIVE StrLess(_, _)
StrLess(a, b) ==
    IF b = << >> THEN FALSE
    ELSE IF a = << >> THEN TRUE
    ELSE IF a[1] = b[1] THEN StrLess(Tail(a), Tail(b))
    ELSE Ord(a[1]) < Ord(b[1])

\* Python 3's ordering of two component lists, as LooseVersion._cmp asks for
\* it (==, then <, then >): "lt", "eq", "gt", or "TypeError" when the first
\* components that differ are an int and a str.
RECURSIVE ListCmp(_, _)
ListCmp(a, b) ==
    IF a = << >> /\ b = << >> THEN "eq"
    ELSE IF a = << >> THEN "lt"
    ELSE IF b = << >> THEN "gt"
    ELSE IF a[1] = b[1] THEN ListCmp(Tail(a), Tail(b))
    ELSE IF a[1].type # b[1].type THEN "TypeError"
    ELSE IF a[1].type = "int"
         THEN (IF a[1].int < b[1].int THEN "lt" ELSE "gt")
         ELSE (IF StrLess(a[1].str, b[1].str) THEN "lt" ELSE "gt")

\* LooseVersion(a)._cmp(LooseVersion(b)).
LooseVersionCmp(a, b) == ListCmp(LooseVersionParse(a), LooseVersionParse(b))

\* What a call gives back: a value, or the exception it raises.
Returned(v) == [exc |-> "none", value |-> v]
Raised(e) == [exc |-> e, value |-> EMPTY]

\* max() over the rest of the generator, cur being the largest so far: an
\* item replaces cur when item > cur.
RECURSIVE MaxLooseVersion(_, _)
MaxLooseVersion(cur, rest) ==
    IF rest = << >> THEN Returned(cur)
    ELSE LET c == LooseVersionCmp(rest[1], cur)
         IN  IF c = "TypeError" THEN Raised("TypeError")
             ELSE IF c = "gt" THEN MaxLooseVersion(rest[1], Tail(rest))
             ELSE MaxLooseVersion(cur, Tail(rest))

\* ReleaseTags with the prerelease filter of line 83 left out.
ReleaseTagsUnfiltered(releases) ==
    [i \in 1..Len(releases) |-> releases[i].tag_name]

\* The tag names the generator of resolve_latest_version yields, in order.
ReleaseTags(releases) ==
    LET kept == SelectSeq(releases, LAMBDA release : ~release.prerelease)
    IN  [i \in 1..Len(kept) |-> kept[i].tag_name]

\* resolve_latest_version, given the parsed response of the releases endpoint:
\* the largest tag that is no prerelease; max() of nothing raises ValueError.
resolve_latest_version(releases) ==
    LET tags == ReleaseTags(releases)
    IN  IF tags = << >> THEN Raised("ValueError")
        ELSE MaxLooseVersion(tags[1], Tail(tags))

\* ------------------------------------------------------------- environment

V_0_9_0 == <<"0", ".", "9", ".", "0">>
V_0_10_0 == <<"0", ".", "1", "0", ".", "0">>
V_0_10_0rc1 == <<"0", ".", "1", "0", ".", "0", "r", "c", "1">>
V_0_20_0 == <<"0", ".", "2", "0", ".", "0">>

\* Tags the releases endpoint may list.
Tags == {V_0_9_0, V_0_10_0, V_0_10_0rc1}

\* One parsed response: up to MaxCatalog releases, no tag twice.
Releases == [tag_name : Tags, prerelease : BOOLEAN]
Catalogs ==
    UNION {{c \in [1..n -> Releases] :
               \A i, j \in 1..n : c[i].tag_name = c[j].tag_name => i = j} :
           n \in 0..MaxCatalog}

\* Values of USE_BAZEL_VERSION when it is set.
OverrideValues == {EMPTY, V_0_20_0}
Environs == {<< >>} \cup [{"USE_BAZEL_VERSION"} -> OverrideValues]

\* What .bazelversion holds when it is a file.
PinContents == {<<"0", ".", "1", "9", ".", "0", "\n">>, <<" ", "0", ".", "9", ".", "0">>}

\* A directory as the resolver sees it: whether WORKSPACE exists in it, and
\* whether .bazelversion is absent, a file or a directory.
Directories ==
    [WORKSPACE : BOOLEAN, bazelversion : {"absent"}, contents : {EMPTY}]
    \cup [WORKSPACE : BOOLEAN, bazelversion : {"dir"}, contents : {EMPTY}]
    \cup [WORKSPACE : BOOLEAN, bazelversion : {"file"}, contents : PinContents]

\* The current directory and its ancestors, the filesystem root last.
Ancestries == UNION {[1..n -> Directories] : n \in 1..MaxDepth}

\* Seconds the clock may advance in one step.
ClockSteps == {1799, 1801}

\* The version labels handed to resolve_version_label_to_number.
Labels == {LATEST, V_0_20_0}

VARIABLES
    environ,        \* os.environ
    ancestors,      \* the directories from os.getcwd() up to the root
    directive,      \* what decide_which_bazel_version_to_use gave back
    now,            \* time.time()
    latest_cache,   \* the file <bazelisk_directory>/latest_bazel
    urlopens,       \* requests made to the releases endpoint
    call,           \* the last call of resolve_version_label_to_number
    host,           \* which of gpg and which the host has
    directory,      \* the entries of the bin directory: path -> inode, 0 for none
    inode,          \* the files: what is written, and the mode
    proc,           \* each invocation of download_bazel_into_directory
    binary_origin,  \* how the entry at binary_path came to be
    platform,       \* platform.system() and platform.machine()
    endpoint,       \* the releases the releases endpoint lists
    plan,           \* the file name and URLs of lines 264-265
    tools,          \* the file tools/bazel of the workspace
    launcher,       \* execute_bazel and the exit of the launcher
    child           \* the process execute_bazel started

vars == <<environ, ancestors, directive, now, latest_cache, urlopens, call,
          host, directory, inode, proc, binary_origin,
          platform, endpoint, plan, tools, launcher, child>>

decideVars == <<environ, ancestors, directive>>
resolveVars == <<now, latest_cache, urlopens, call>>
acquireVars == <<host, directory, inode, proc, binary_origin>>
mainVars == <<platform, endpoint, plan, tools, launcher, child>>

\* ------------------------------------------------ the version directive

\* find_workspace_root: the index of the first directory, from root upward,
\* that holds WORKSPACE; 0 for None.
RECURSIVE find_workspace_root(_, _)
find_workspace_root(dirs, root) ==
    IF dirs[root].WORKSPACE THEN root
    ELSE IF root < Len(dirs) THEN find_workspace_root(dirs, root + 1)
    ELSE 0

\* decide_which_bazel_version_to_use.
decide_which_bazel_version_to_use(env, dirs) ==
    IF "USE_BAZEL_VERSION" \in DOMAIN env
    THEN Returned(env["USE_BAZEL_VERSION"])
    ELSE LET workspace_root == find_workspace_root(dirs, 1)
         IN  IF workspace_root # 0 /\ dirs[workspace_root].bazelversion # "absent"
             THEN IF dirs[workspace_root].bazelversion = "file"
                  THEN Returned(Strip(dirs[workspace_root].contents))
                  ELSE Raised("IsADirectoryError")
             ELSE Returned(LATEST)

Pending == [exc |-> "pending", value |-> EMPTY]

DecideInit ==
    /\ environ \in Environs
    /\ ancestors \in Ancestries
    /\ directive = Pending

DecideIdle ==
    /\ environ = << >>
    /\ ancestors = <<[WORKSPACE |-> FALSE, bazelversion |-> "absent", contents |-> EMPTY]>>
    /\ directive = Pending

\* main, line 312.
Decide ==
    /\ directive = Pending
    /\ directive' = decide_which_bazel_version_to_use(environ, ancestors)
    /\ UNCHANGED <<environ, ancestors>>
    /\ UNCHANGED resolveVars
    /\ UNCHANGED acquireVars
    /\ UNCHANGED mainVars

\* ------------------------------------------------- resolving the label

\* A file of the cache: request is the number of the releases request whose
\* answer it holds (not on disk; kept to count requests per cache file).
NoFile == [exists |-> FALSE, contents |-> EMPTY, mtime |-> 0, request |-> 0]

\* A call of resolve_version_label_to_number as it ended: its argument, the
\* line it returned from ("label", "cache", "fetch"), what it returned or
\* raised, the response it parsed, and the cache file, the request count and
\* the time as the call began.
NoCall == [version |-> EMPTY, via |-> "none", exc |-> "none", value |-> EMPTY,
           releases |-> << >>, cache_before |-> NoFile, urlopens_before |-> 0,
           at |-> 0]

Abs(x) == IF x < 0 THEN -x ELSE x

\* CacheIsFresh with the comparison of line 90 turned round.
CacheIsFreshReversed(cache, t) ==
    cache.exists /\ Abs(t - cache.mtime) > ONE_HOUR

\* Lines 89-90: the cache file exists and is younger than an hour.
CacheIsFresh(cache, t) ==
    cache.exists /\ Abs(t - cache.mtime) < ONE_HOUR

ResolveInit ==
    /\ now = 0
    /\ latest_cache = NoFile
    /\ urlopens = 0
    /\ call = NoCall

Called(version, via, result, releases) ==
    [version |-> version, via |-> via, exc |-> result.exc, value |-> result.value,
     releases |-> releases, cache_before |-> latest_cache,
     urlopens_before |-> urlopens, at |-> now]

\* resolve_version_label_to_number for a label other than 'latest': line 97.
ResolveExplicit(version) ==
    /\ version # LATEST
    /\ call' = Called(version, "label", Returned(version), << >>)
    /\ UNCHANGED <<now, latest_cache, urlopens>>
    /\ UNCHANGED decideVars
    /\ UNCHANGED mainVars
    /\ UNCHANGED acquireVars

\* 'latest' with a fresh cache file: lines 88-92.
ResolveFromCache ==
    /\ CacheIsFresh(latest_cache, now)
    /\ call' = Called(LATEST, "cache", Returned(Strip(latest_cache.contents)), << >>)
    /\ UNCHANGED <<now, latest_cache, urlopens>>
    /\ UNCHANGED decideVars
    /\ UNCHANGED mainVars
    /\ UNCHANGED acquireVars

\* Lines 93-95 with the cache file opened for writing before
\* resolve_latest_version is called: a failure leaves an empty file.
CacheAfterFetchOpenedFirst(cache, latest_version, t, request) ==
    [exists |-> TRUE, contents |-> latest_version.value, mtime |-> t,
     request |-> request]

\* Lines 93-95: the cache file after resolve_latest_version returned or
\* raised; open(latest_cache, 'w') is reached only when it returned.
CacheAfterFetch(cache, latest_version, t, request) ==
    IF latest_version.exc = "none"
    THEN [exists |-> TRUE, contents |-> latest_version.value, mtime |-> t,
          request |-> request]
    ELSE cache

\* 'latest' with no fresh cache file, the releases request answered with
\* releases: lines 93-96. The cache file is written only when
\* resolve_latest_version returned.
ResolveFetch(releases) ==
    /\ urlopens < MaxUrlopens
    /\ ~CacheIsFresh(latest_cache, now)
    /\ urlopens' = urlopens + 1
    /\ LET latest_version == resolve_latest_version(releases)
       IN  /\ call' = Called(LATEST, "fetch", latest_version, releases)
           /\ latest_cache' =
                  CacheAfterFetch(latest_cache, latest_version, now, urlopens + 1)
    /\ UNCHANGED now
    /\ UNCHANGED decideVars
    /\ UNCHANGED mainVars
    /\ UNCHANGED acquireVars

\* 'latest' with no fresh cache file, urlopen raising: line 78.
ResolveFetchFails ==
    /\ urlopens < MaxUrlopens
    /\ ~CacheIsFresh(latest_cache, now)
    /\ urlopens' = urlopens + 1
    /\ call' = Called(LATEST, "fetch", Raised("URLError"), << >>)
    /\ latest_cache' =
           CacheAfterFetch(latest_cache, Raised("URLError"), now, urlopens + 1)
    /\ UNCHANGED now
    /\ UNCHANGED decideVars
    /\ UNCHANGED mainVars
    /\ UNCHANGED acquireVars

\* Time passes between two invocations.
Tick(d) ==
    /\ now + d <= MaxTime
    /\ now' = now + d
    /\ UNCHANGED <<latest_cache, urlopens, call>>
    /\ UNCHANGED decideVars
    /\ UNCHANGED mainVars
    /\ UNCHANGED acquireVars

\* ------------------------------------------- the files of the bin directory

\* binary_path, untrusted_binary_path and signature_path of lines 266-269.
Paths == {"binary_path", "untrusted_binary_path", "signature_path"}

\* The invocations that may run at once, and the one of the sequential runs.
Procs == {1, 2}
Sequential == {1}

\* Enough inodes for every path and every open file.
Inodes == 1..(Cardinality(Paths) + Cardinality(Procs))

NoInode == [used |-> FALSE, data |-> << >>, mode |-> "none"]

\* What the server answers a download with.
Kinds == {"good", "bad"}

\* The i-th piece of the file (binary or signature) the server sends.
Chunk(file, kind, i) == [file |-> file, kind |-> kind, part |-> i]
Hole == [file |-> "hole", kind |-> "hole", part |-> 0]

Size(file) == IF file = "binary" THEN BinaryChunks ELSE SignatureChunks

\* The whole file as the server sends it.
Blob(file, kind) == [i \in 1..Size(file) |-> Chunk(file, kind, i)]

\* A whole download of the file, of either kind.
IsWhole(data, file) == \E kind \in Kinds : data = Blob(file, kind)

\* file.write at an offset: over what is there, at the end, or past the end
\* of a file truncated meanwhile (the gap reads as zeros).
RECURSIVE Holes(_)
Holes(n) == IF n <= 0 THEN << >> ELSE <<Hole>> \o Holes(n - 1)

WriteAt(data, offset, chunk) ==
    IF offset < Len(data) THEN [data EXCEPT ![offset + 1] = chunk]
    ELSE data \o Holes(offset - Len(data)) \o <<chunk>>

\* What is at a path: the file's data, or Missing.
Missing == <<"ENOENT">>
Contents(dirs, files, path) ==
    IF dirs[path] = 0 THEN Missing ELSE files[dirs[path]].data

\* gpg --verify signature_path binary_path exits 0: the signature is the
\* release key's signature of this binary.
GpgAccepts(binary, signature) ==
    binary = Blob("binary", "good") /\ signature = Blob("signature", "good")

\* An inode is kept while a path or an open file refers to it.
Referenced(i, dirs, procs) ==
    \/ \E path \in Paths : dirs[path] = i
    \/ \E q \in Procs : procs[q].fd = i

FreshInode == CHOOSE i \in Inodes :
    /\ ~Referenced(i, directory, proc)
    /\ \A j \in Inodes : ~Referenced(j, directory, proc) => i <= j

\* The next state of the files, inodes nothing refers to dropped.
Files(dirs, files, procs) ==
    /\ directory' = dirs
    /\ proc' = procs
    /\ inode' = [i \in Inodes |-> IF Referenced(i, dirs, procs) THEN files[i] ELSE NoInode]

\* os.rename leaving the source entry in place (a copy, not a move).
RenameKeepingSource(dirs, src, dst) == [dirs EXCEPT ![dst] = dirs[src]]

\* os.rename(src, dst) on an existing src: dst names src's file, src is gone.
Rename(dirs, src, dst) == [dirs EXCEPT ![dst] = dirs[src], ![src] = 0]

\* os.unlink(path).
Unlink(dirs, path) == [dirs EXCEPT ![path] = 0]

\* ---------------------------------------- download_bazel_into_directory

NoTempdir == [exists |-> FALSE, ownertrust |-> FALSE, pubkey |-> FALSE]

\* An invocation about to start, after runs earlier ones of its process.
\* pc: the step it is at; fd, offset, serving: the file download_file has
\* open, where it writes next and what the server sends; valid: whether the
\* downloaded pair was authentic as verify_authenticity was called;
\* authentic: what verify_authenticity returned and why; pending: what its
\* try block ended with; status: the exit status of the process (-1: it has
\* not exited); line: the line that raised or exited; hit, stale: whether
\* binary_path and untrusted_binary_path existed at line 267; downloads: the
\* calls of urlopen; got: what the server sent for the binary; result: the
\* path returned; earlier: the path the invocation before this one returned.
NewProc(runs) ==
    [pc |-> "start", fd |-> 0, offset |-> 0, serving |-> "none",
     valid |-> "unknown", authentic |-> "unknown", pending |-> "none",
     tempdir |-> NoTempdir, status |-> -1, line |-> 0, runs |-> runs,
     hit |-> FALSE, stale |-> FALSE, downloads |-> 0, got |-> "none",
     result |-> "none", earlier |-> "none"]

Terminal == {"returned", "raised", "exited"}

\* An uncaught exception ends the interpreter with status 1.
Raise(self, line) == [self EXCEPT !.pc = "raised", !.fd = 0, !.status = 1, !.line = line]

Hosts == [gpg : {"absent", "broken", "ok"}, which : BOOLEAN]

AcquireInit ==
    /\ host \in Hosts
    /\ directory = [path \in Paths |-> 0]
    /\ inode = [i \in Inodes |-> NoInode]
    /\ proc = [p \in Procs |-> NewProc(0)]
    /\ binary_origin = "none"

AcquireIdle ==
    /\ host = [gpg |-> "ok", which |-> TRUE]
    /\ directory = [path \in Paths |-> 0]
    /\ inode = [i \in Inodes |-> NoInode]
    /\ proc = [p \in Procs |-> NewProc(0)]
    /\ binary_origin = "none"

\* Line 267 without the test: the binary is downloaded every time.
FirstStepAlwaysDownloads(dirs) == "get_binary"

\* Line 267 with a staging file that is there taken for the download.
FirstStepReusingStaging(dirs) ==
    IF dirs["binary_path"] # 0 THEN "chmod"
    ELSE IF dirs["untrusted_binary_path"] # 0 /\ dirs["signature_path"] # 0 THEN "verify"
    ELSE "get_binary"

\* Line 267: the cached binary goes straight to line 277, anything else is
\* downloaded, whatever is at the staging path.
FirstStep(dirs) ==
    IF dirs["binary_path"] # 0 THEN "chmod" ELSE "get_binary"

\* Lines 264-267: the paths, and the test for the cached binary.
Begin(p) ==
    /\ proc[p].pc = "start"
    /\ proc' = [proc EXCEPT ![p].pc = FirstStep(directory),
                            ![p].hit = directory["binary_path"] # 0,
                            ![p].stale = directory["untrusted_binary_path"] # 0]
    /\ UNCHANGED <<host, directory, inode, binary_origin>>
    /\ UNCHANGED decideVars
    /\ UNCHANGED mainVars
    /\ UNCHANGED resolveVars

FileOf(pc) == IF pc \in {"get_binary", "copy_binary"} THEN "binary" ELSE "signature"
DestinationOf(pc) ==
    IF pc \in {"get_binary", "copy_binary"} THEN "untrusted_binary_path" ELSE "signature_path"

\* download_file, lines 243-244: urlopen raises, or answers and open(.., 'wb')
\* creates the destination or truncates the file that is there.
DownloadOpen(p) ==
    /\ proc[p].pc \in {"get_binary", "get_signature"}
    /\ \/ /\ proc' = [proc EXCEPT ![p] = [Raise(@, 243) EXCEPT !.downloads = @ + 1]]
          /\ UNCHANGED <<directory, inode>>
       \/ \E kind \in Kinds :
            LET path == DestinationOf(proc[p].pc)
                i == IF directory[path] = 0 THEN FreshInode ELSE directory[path]
                mode == IF directory[path] = 0 THEN "rw-r--r--" ELSE inode[i].mode
            IN  Files([directory EXCEPT ![path] = i],
                      [inode EXCEPT ![i] = [used |-> TRUE, data |-> << >>, mode |-> mode]],
                      [proc EXCEPT ![p].pc = IF @ = "get_binary" THEN "copy_binary"
                                                                 ELSE "copy_signature",
                                   ![p].fd = i, ![p].offset = 0, ![p].serving = kind,
                                   ![p].downloads = @ + 1,
                                   ![p].got = IF proc[p].pc = "get_binary" THEN kind ELSE @])
    /\ UNCHANGED <<host, binary_origin>>
    /\ UNCHANGED decideVars
    /\ UNCHANGED mainVars
    /\ UNCHANGED resolveVars

\* download_file, line 245: copyfileobj writes the next piece, and the with
\* blocks close the file after the last one; or the read raises and the file
\* is closed as it is.
DownloadCopy(p) ==
    /\ proc[p].pc \in {"copy_binary", "copy_signature"}
    /\ \/ Files(directory, inode, [proc EXCEPT ![p] = Raise(@, 245)])
       \/ LET self == proc[p]
              file == FileOf(self.pc)
              written == WriteAt(inode[self.fd].data, self.offset,
                                 Chunk(file, self.serving, self.offset + 1))
              last == self.offset + 1 = Size(file)
          IN  Files(directory,
                    [inode EXCEPT ![self.fd].data = written],
                    [proc EXCEPT ![p].offset = IF last THEN 0 ELSE @ + 1,
                                 ![p].fd = IF last THEN 0 ELSE @,
                                 ![p].serving = IF last THEN "none" ELSE @,
                                 ![p].pc = IF ~last THEN @
                                           ELSE IF @ = "copy_binary" THEN "get_signature"
                                           ELSE "verify"])
    /\ UNCHANGED <<host, binary_origin>>
    /\ UNCHANGED decideVars
    /\ UNCHANGED mainVars
    /\ UNCHANGED resolveVars

\* Lines 272-276 with the branches swapped.
AfterVerifySwapped(returned) == IF returned THEN "unlink" ELSE "rename"

\* Lines 272-276: where download_bazel_into_directory goes on what
\* verify_authenticity returned.
AfterVerify(returned) == IF returned THEN "rename" ELSE "unlink"

\* verify_authenticity, lines 181-186: gpg --batch --version. Popen raises
\* when there is no gpg to run; a non-zero exit returns True.
GpgProbe(p) ==
    /\ proc[p].pc = "verify"
    /\ LET valid == IF GpgAccepts(Contents(directory, inode, "untrusted_binary_path"),
                                  Contents(directory, inode, "signature_path"))
                    THEN "valid" ELSE "invalid"
       IN  proc' = [proc EXCEPT ![p] =
               IF host.gpg = "absent" THEN [Raise(@, 143) EXCEPT !.valid = valid]
               ELSE IF host.gpg = "broken"
                    THEN [@ EXCEPT !.valid = valid, !.authentic = "skipped",
                                   !.pc = AfterVerify(TRUE)]
                    ELSE [@ EXCEPT !.valid = valid, !.pc = "mkdtemp"]]
    /\ UNCHANGED <<host, directory, inode, binary_origin>>
    /\ UNCHANGED decideVars
    /\ UNCHANGED mainVars
    /\ UNCHANGED resolveVars

\* Line 188: tempfile.mkdtemp.
Mkdtemp(p) ==
    /\ proc[p].pc = "mkdtemp"
    /\ proc' = [proc EXCEPT ![p].pc = "debug",
                            ![p].tempdir = [exists |-> TRUE, ownertrust |-> FALSE,
                                            pubkey |-> FALSE]]
    /\ UNCHANGED <<host, directory, inode, binary_origin>>
    /\ UNCHANGED decideVars
    /\ UNCHANGED mainVars
    /\ UNCHANGED resolveVars

\* Lines 198-203: the prints, gpg --version, and subprocess.call(["which",
\* "gpg"]), which raises when the host has no which.
DebugPrints(p) ==
    /\ proc[p].pc = "debug"
    /\ proc' = [proc EXCEPT ![p] =
           IF host.which THEN [@ EXCEPT !.pc = "ownertrust"]
           ELSE [@ EXCEPT !.pc = "finally", !.pending = "raise", !.line = 203]]
    /\ UNCHANGED <<host, directory, inode, binary_origin>>
    /\ UNCHANGED decideVars
    /\ UNCHANGED mainVars
    /\ UNCHANGED resolveVars

\* Lines 205-209: gpg --import-ownertrust exits 0, or does not.
ImportOwnertrust(p) ==
    /\ proc[p].pc = "ownertrust"
    /\ \/ proc' = [proc EXCEPT ![p].pc = "import", ![p].tempdir.ownertrust = TRUE]
       \/ proc' = [proc EXCEPT ![p].pc = "finally", ![p].pending = "false", ![p].line = 209]
    /\ UNCHANGED <<host, directory, inode, binary_origin>>
    /\ UNCHANGED decideVars
    /\ UNCHANGED mainVars
    /\ UNCHANGED resolveVars

\* Lines 210-214: gpg --import exits 0, or does not.
ImportKey(p) ==
    /\ proc[p].pc = "import"
    /\ \/ proc' = [proc EXCEPT ![p].pc = "gpg_verify", ![p].tempdir.pubkey = TRUE]
       \/ proc' = [proc EXCEPT ![p].pc = "finally", ![p].pending = "false", ![p].line = 214]
    /\ UNCHANGED <<host, directory, inode, binary_origin>>
    /\ UNCHANGED decideVars
    /\ UNCHANGED mainVars
    /\ UNCHANGED resolveVars

\* Lines 215-220: gpg --verify reads the two files as they are now.
GpgVerify(p) ==
    /\ proc[p].pc = "gpg_verify"
    /\ LET accepted ==
               /\ proc[p].tempdir.ownertrust
               /\ proc[p].tempdir.pubkey
               /\ GpgAccepts(Contents(directory, inode, "untrusted_binary_path"),
                             Contents(directory, inode, "signature_path"))
       IN  proc' = [proc EXCEPT ![p].pc = "finally",
                                ![p].pending = IF accepted THEN "true" ELSE "false",
                                ![p].line = IF accepted THEN 220 ELSE 218]
    /\ UNCHANGED <<host, directory, inode, binary_origin>>
    /\ UNCHANGED decideVars
    /\ UNCHANGED mainVars
    /\ UNCHANGED resolveVars

\* shutil.rmtree skipped: the directory stays.
RmtreeSkipped(tempdir) == tempdir

\* Line 223: shutil.rmtree(tempdir).
Rmtree(tempdir) == NoTempdir

\* Lines 222-223, and the return or raise the try block ended with.
Finally(p) ==
    /\ proc[p].pc = "finally"
    /\ LET self == [proc[p] EXCEPT !.tempdir = Rmtree(@), !.pending = "none"]
       IN  proc' = [proc EXCEPT ![p] =
               IF proc[p].pending = "raise" THEN Raise(self, self.line)
               ELSE IF proc[p].pending = "true"
                    THEN [self EXCEPT !.authentic = "verified", !.pc = AfterVerify(TRUE)]
                    ELSE [self EXCEPT !.authentic = "rejected", !.pc = AfterVerify(FALSE)]]
    /\ UNCHANGED <<host, directory, inode, binary_origin>>
    /\ UNCHANGED decideVars
    /\ UNCHANGED mainVars
    /\ UNCHANGED resolveVars

\* Line 273: os.rename(untrusted_binary_path, binary_path); it raises when
\* there is no file at untrusted_binary_path.
Promote(p) ==
    /\ proc[p].pc = "rename"
    /\ IF directory["untrusted_binary_path"] = 0
       THEN /\ proc' = [proc EXCEPT ![p] = Raise(@, 273)]
            /\ UNCHANGED <<directory, inode, binary_origin>>
       ELSE /\ Files(Rename(directory, "untrusted_binary_path", "binary_path"),
                     inode,
                     [proc EXCEPT ![p].pc = "chmod"])
            /\ binary_origin' = proc[p].authentic
    /\ UNCHANGED host
    /\ UNCHANGED decideVars
    /\ UNCHANGED mainVars
    /\ UNCHANGED resolveVars

\* Lines 275-276: os.unlink(untrusted_binary_path), which raises when there is
\* no such file, then SystemExit(AUTHENTICATION_FAILURE_EXIT_CODE).
Reject(p) ==
    /\ proc[p].pc = "unlink"
    /\ IF directory["untrusted_binary_path"] = 0
       THEN /\ proc' = [proc EXCEPT ![p] = Raise(@, 275)]
            /\ UNCHANGED <<directory, inode>>
       ELSE Files(Unlink(directory, "untrusted_binary_path"),
                  inode,
                  [proc EXCEPT ![p].pc = "exited",
                               ![p].status = AUTHENTICATION_FAILURE_EXIT_CODE,
                               ![p].line = 276])
    /\ UNCHANGED <<host, binary_origin>>
    /\ UNCHANGED decideVars
    /\ UNCHANGED mainVars
    /\ UNCHANGED resolveVars

\* Lines 277-278: os.chmod(binary_path, 0o755) and the return.
Chmod(p) ==
    /\ proc[p].pc = "chmod"
    /\ IF directory["binary_path"] = 0
       THEN /\ proc' = [proc EXCEPT ![p] = Raise(@, 277)]
            /\ UNCHANGED <<directory, inode>>
       ELSE Files(directory,
                  [inode EXCEPT ![directory["binary_path"]].mode = "rwxr-xr-x"],
                  [proc EXCEPT ![p].pc = "returned", ![p].line = 278,
                               ![p].result = "binary_path"])
    /\ UNCHANGED <<host, binary_origin>>
    /\ UNCHANGED decideVars
    /\ UNCHANGED mainVars
    /\ UNCHANGED resolveVars

\* The launcher is run again after an invocation ended.
Restart(p) ==
    /\ proc[p].pc \in Terminal
    /\ proc[p].runs < MaxRuns
    /\ proc' = [proc EXCEPT ![p] = [NewProc(@.runs + 1) EXCEPT !.earlier = proc[p].result]]
    /\ UNCHANGED <<host, directory, inode, binary_origin>>
    /\ UNCHANGED decideVars
    /\ UNCHANGED mainVars
    /\ UNCHANGED resolveVars

\* ------------------------------------------------- file names and URLs

\* platform.system().lower() and platform.machine().lower() of the hosts.
LINUX == <<"l", "i", "n", "u", "x">>
DARWIN == <<"d", "a", "r", "w", "i", "n">>
WINDOWS == <<"w", "i", "n", "d", "o", "w", "s">>
FREEBSD == <<"f", "r", "e", "e", "b", "s", "d">>
X86_64 == <<"x", "8", "6", "_", "6", "4">>
AMD64 == <<"a", "m", "d", "6", "4">>
ARM64 == <<"a", "r", "m", "6", "4">>

Systems == {LINUX, DARWIN, WINDOWS, FREEBSD}
Machines == {X86_64, AMD64, ARM64}
Platforms == [system : Systems, machine : Machines]

\* The string literals of lines 114, 234-236.
BAZEL_DASH == <<"b", "a", "z", "e", "l", "-">>
DASH == <<"-">>
SLASH == <<"/">>
EXE == <<".", "e", "x", "e">>
RELEASE == <<"r", "e", "l", "e", "a", "s", "e">>
SIG == <<".", "s", "i", "g">>
RELEASES_HOST ==
    <<"h", "t", "t", "p", "s", ":", "/", "/", "r", "e", "l", "e", "a", "s", "e",
      "s", ".", "b", "a", "z", "e", "l", ".", "b", "u", "i", "l", "d", "/">>

\* normalized_machine_arch_name.
normalized_machine_arch_name(plat) ==
    IF plat.machine = AMD64 THEN X86_64 ELSE plat.machine

\* determine_bazel_filename: 'bazel-{}-{}-{}{}', or Exception for a machine
\* or an operating system that is not supported.
determine_bazel_filename(version, plat) ==
    LET machine == normalized_machine_arch_name(plat)
        operating_system == plat.system
        filename_ending == IF operating_system = WINDOWS THEN EXE ELSE EMPTY
    IN  IF machine # X86_64 THEN Raised("Exception")
        ELSE IF operating_system \notin {LINUX, DARWIN, WINDOWS} THEN Raised("Exception")
        ELSE Returned(BAZEL_DASH \o version \o DASH \o operating_system \o DASH
                      \o machine \o filename_ending)

\* s from its n-th character on (s[n-1:] in Python terms).
From(s, n) == SubSeq(s, n, Len(s))

\* The group (rc\d)? of line 233 matched at the head of s: 'rc' and one
\* digit, or nothing (None, which line 235 treats as it treats '').
RcGroup(s) ==
    IF Len(s) >= 3 /\ s[1] = "r" /\ s[2] = "c" /\ IsDigit(s[3])
    THEN SubSeq(s, 1, 3)
    ELSE EMPTY

\* re.match(r'(\d*\.\d*(?:\.\d*)?)(rc\d)?', version): whether it matched at
\* the head of version, and the two groups.
VersionMatch(version) ==
    LET a == RunLength(version, "digit")
        b == RunLength(From(version, a + 2), "digit")
        afterB == From(version, a + 2 + b)
        c == IF afterB # << >> /\ afterB[1] = "."
             THEN 1 + RunLength(Tail(afterB), "digit") ELSE 0
        end == a + 1 + b + c
    IN  IF Len(version) > a /\ version[a + 1] = "."
        THEN [matched |-> TRUE, version |-> SubSeq(version, 1, end),
              rc |-> RcGroup(From(version, end + 1))]
        ELSE [matched |-> FALSE, version |-> EMPTY, rc |-> EMPTY]

\* What lines 264-265 give: the file name and the two URLs, or the exception
\* and the line that raised it.
NoPlan == [exc |-> "pending", line |-> 0, bazel_filename |-> EMPTY,
           binary_url |-> EMPTY, signature_url |-> EMPTY]

\* determine_urls: None has no groups() when the pattern does not match.
determine_urls(version, bazel_filename) ==
    LET m == VersionMatch(version)
        binary_url == RELEASES_HOST \o m.version \o SLASH
                      \o (IF m.rc # EMPTY THEN m.rc ELSE RELEASE)
                      \o SLASH \o bazel_filename
    IN  IF ~m.matched
        THEN [NoPlan EXCEPT !.exc = "AttributeError", !.line = 233,
                            !.bazel_filename = bazel_filename]
        ELSE [exc |-> "none", line |-> 237, bazel_filename |-> bazel_filename,
              binary_url |-> binary_url, signature_url |-> binary_url \o SIG]

\* The labels with an offset into the release history.
LATEST_0 == LATEST \o <<"-", "0">>
LATEST_1 == LATEST \o <<"-", "1">>
LATEST_3 == LATEST \o <<"-", "3">>
SymbolicLabels == {LATEST, LATEST_0, LATEST_1, LATEST_3}

\* Explicit versions: a numeric prefix, bare or with rc and a number of up to
\* MaxRcDigits digits that does not start with 0.
V_0_19 == <<"0", ".", "1", "9">>
V_1_0_0 == <<"1", ".", "0", ".", "0">>
NumericPrefixes == {V_0_19, V_0_20_0, V_1_0_0}
RcDigits == {"0", "1", "2"}
RcNumbers ==
    UNION {{n \in [1..k -> RcDigits] : n[1] # "0"} : k \in 1..MaxRcDigits}
RcSuffixes == {<<"r", "c">> \o n : n \in RcNumbers}
ExplicitVersions ==
    NumericPrefixes \cup {prefix \o rc : prefix \in NumericPrefixes, rc \in RcSuffixes}

LinuxHost == [system |-> LINUX, machine |-> X86_64]

\* Lines 264-265, on the version resolve_version_label_to_number returned.
Plan ==
    /\ plan = NoPlan
    /\ call.via # "none"
    /\ call.exc = "none"
    /\ LET bazel_filename == determine_bazel_filename(call.value, platform)
       IN  plan' = IF bazel_filename.exc # "none"
                   THEN [NoPlan EXCEPT !.exc = bazel_filename.exc, !.line = 264]
                   ELSE determine_urls(call.value, bazel_filename.value)
    /\ UNCHANGED <<platform, endpoint, tools, launcher, child>>
    /\ UNCHANGED decideVars
    /\ UNCHANGED resolveVars
    /\ UNCHANGED acquireVars

\* ---------------------------------------------------------- execute_bazel

\* The file tools/bazel of the workspace: whether it exists, whether it is
\* executable, and whether it is the launcher's own file.
Wrappers ==
    {[exists |-> FALSE, executable |-> FALSE, self |-> FALSE]}
    \cup [exists : {TRUE}, executable : BOOLEAN, self : BOOLEAN]
NoWrapper == [exists |-> FALSE, executable |-> FALSE, self |-> FALSE]

\* Exit codes of the child, and the signals that may end it (SIGINT, SIGKILL).
ExitCodes == {0, 1, AUTHENTICATION_FAILURE_EXIT_CODE, 8}
SIGINT == 2
SIGKILL == 9
Signals == {SIGINT, SIGKILL}

\* The child: not started, running, or ended by exit(code) or by a signal.
NoChild == [state |-> "none", program |-> "none", bazel_real |-> FALSE,
            code |-> 0, signal |-> 0]

\* execute_bazel: pc is where it stands ("idle" before line 294, "waiting"
\* inside p.wait(), "handler" in the except clause); interrupts counts the
\* KeyboardInterrupts raised so far, outside says one was raised outside the
\* try block; value is what main returned, status the exit status of the
\* launcher (-1: it has not exited).
NewLauncher == [pc |-> "idle", interrupts |-> 0, outside |-> FALSE,
                value |-> 0, status |-> -1]

\* Popen.wait(): the exit code of a child that exited, -N for one ended by
\* signal N.
Returncode(c) == IF c.state = "signaled" THEN -c.signal ELSE c.code

\* sys.exit(n) for an integer n: the low eight bits are the exit status.
SysExit(n) == n % 256

MainIdle ==
    /\ platform = LinuxHost
    /\ endpoint = << >>
    /\ plan = NoPlan
    /\ tools = NoWrapper
    /\ launcher = NewLauncher
    /\ child = NoChild

\* Line 294: Popen([bazel_path] + argv) with the environment of the launcher;
\* it raises when the file cannot be executed.
Spawn ==
    /\ launcher.pc = "idle"
    /\ proc[1].pc = "returned"
    /\ \/ /\ launcher' = [launcher EXCEPT !.pc = "raised", !.status = 1]
          /\ UNCHANGED child
       \/ /\ launcher' = [launcher EXCEPT !.pc = "waiting"]
          /\ child' = [NoChild EXCEPT !.state = "running", !.program = "bazel_path"]
    /\ UNCHANGED <<platform, endpoint, plan, tools>>
    /\ UNCHANGED decideVars
    /\ UNCHANGED resolveVars
    /\ UNCHANGED acquireVars

\* The child calls exit(code).
ChildExits(code) ==
    /\ child.state = "running"
    /\ child' = [child EXCEPT !.state = "exited", !.code = code]
    /\ UNCHANGED <<platform, endpoint, plan, tools, launcher>>
    /\ UNCHANGED decideVars
    /\ UNCHANGED resolveVars
    /\ UNCHANGED acquireVars

\* A signal ends the child.
ChildSignaled(signal) ==
    /\ child.state = "running"
    /\ child' = [child EXCEPT !.state = "signaled", !.signal = signal]
    /\ UNCHANGED <<platform, endpoint, plan, tools, launcher>>
    /\ UNCHANGED decideVars
    /\ UNCHANGED resolveVars
    /\ UNCHANGED acquireVars

\* The except clause with a raise in the place of pass.
OnKeyboardInterruptReraises(self) == [self EXCEPT !.pc = "raised", !.status = 1]

\* Lines 298-301: the except clause passes and the loop calls p.wait() again.
OnKeyboardInterrupt(self) == [self EXCEPT !.pc = "waiting"]

\* SIGINT reaches the launcher inside p.wait() (line 297): KeyboardInterrupt
\* is raised in the try block.
Interrupt ==
    /\ launcher.pc = "waiting"
    /\ launcher.interrupts < MaxInterrupts
    /\ launcher' = [launcher EXCEPT !.pc = "handler", !.interrupts = @ + 1]
    /\ UNCHANGED <<platform, endpoint, plan, tools, child>>
    /\ UNCHANGED decideVars
    /\ UNCHANGED resolveVars
    /\ UNCHANGED acquireVars

\* Lines 298-301, or SIGINT reaching the launcher while it is in the except
\* clause: KeyboardInterrupt is raised outside the try block and ends the
\* launcher.
Resume ==
    /\ launcher.pc = "handler"
    /\ \/ launcher' = OnKeyboardInterrupt(launcher)
       \/ /\ launcher.interrupts < MaxInterrupts
          /\ launcher' = [launcher EXCEPT !.pc = "raised", !.status = 1,
                                          !.interrupts = @ + 1, !.outside = TRUE]
    /\ UNCHANGED <<platform, endpoint, plan, tools, child>>
    /\ UNCHANGED decideVars
    /\ UNCHANGED resolveVars
    /\ UNCHANGED acquireVars

\* Line 297 returns the child's return code, line 320 returns it from main
\* and line 404 exits with it.
Reap ==
    /\ launcher.pc = "waiting"
    /\ child.state \in {"exited", "signaled"}
    /\ launcher' = [launcher EXCEPT !.pc = "returned",
                                    !.value = Returncode(child),
                                    !.status = SysExit(Returncode(child))]
    /\ UNCHANGED <<platform, endpoint, plan, tools, child>>
    /\ UNCHANGED decideVars
    /\ UNCHANGED resolveVars
    /\ UNCHANGED acquireVars

\* ------------------------------------------------------- specifications

\* The version directive, for every environment and directory chain.
InitDecide == DecideInit /\ ResolveInit /\ AcquireIdle /\ MainIdle
NextDecide == Decide
SpecDecide == InitDecide /\ [][NextDecide]_vars

\* Calls of resolve_version_label_to_number as time passes.
InitResolve == DecideIdle /\ ResolveInit /\ AcquireIdle /\ MainIdle
NextResolve ==
    \/ \E version \in Labels : ResolveExplicit(version)
    \/ ResolveFromCache
    \/ \E releases \in Catalogs : ResolveFetch(releases)
    \/ ResolveFetchFails
    \/ \E d \in ClockSteps : Tick(d)
SpecResolve == InitResolve /\ [][NextResolve]_vars

\* One launcher at a time acquiring the binary, run again after it ended.
InitAcquire == DecideIdle /\ ResolveInit /\ AcquireInit /\ MainIdle
NextAcquire ==
    \E p \in Sequential :
        \/ Begin(p)
        \/ DownloadOpen(p)
        \/ DownloadCopy(p)
        \/ GpgProbe(p)
        \/ Mkdtemp(p)
        \/ DebugPrints(p)
        \/ ImportOwnertrust(p)
        \/ ImportKey(p)
        \/ GpgVerify(p)
        \/ Finally(p)
        \/ Promote(p)
        \/ Reject(p)
        \/ Chmod(p)
        \/ Restart(p)
SpecAcquire == InitAcquire /\ [][NextAcquire]_vars

\* Two launchers acquiring the same version into the same directory at once,
\* on a host that has gpg and which.
InitRace == DecideIdle /\ ResolveInit /\ AcquireIdle /\ MainIdle
NextRace ==
    \E p \in Procs :
        \/ Begin(p)
        \/ DownloadOpen(p)
        \/ DownloadCopy(p)
        \/ GpgProbe(p)
        \/ Mkdtemp(p)
        \/ DebugPrints(p)
        \/ ImportOwnertrust(p)
        \/ ImportKey(p)
        \/ GpgVerify(p)
        \/ Finally(p)
        \/ Promote(p)
        \/ Reject(p)
        \/ Chmod(p)
SpecRace == InitRace /\ [][NextRace]_vars

\* One run of main from line 318 on: the binary is acquired and executed, in
\* a workspace with or without tools/bazel.
InitMain ==
    /\ DecideIdle /\ ResolveInit /\ AcquireInit
    /\ platform = LinuxHost
    /\ endpoint = << >>
    /\ plan = NoPlan
    /\ tools \in Wrappers
    /\ launcher = NewLauncher
    /\ child = NoChild
NextMain ==
    \/ \E p \in Sequential :
        \/ Begin(p)
        \/ DownloadOpen(p)
        \/ DownloadCopy(p)
        \/ GpgProbe(p)
        \/ Mkdtemp(p)
        \/ DebugPrints(p)
        \/ ImportOwnertrust(p)
        \/ ImportKey(p)
        \/ GpgVerify(p)
        \/ Finally(p)
        \/ Promote(p)
        \/ Reject(p)
        \/ Chmod(p)
    \/ Spawn
    \/ \E code \in ExitCodes : ChildExits(code)
    \/ \E signal \in Signals : ChildSignaled(signal)
    \/ Interrupt
    \/ Resume
    \/ Reap
SpecMain == InitMain /\ [][NextMain]_vars

\* One run of main from line 312 to line 265 with the version given in
\* USE_BAZEL_VERSION: a symbolic label against every list of releases, or an
\* explicit version on every platform.
LabelEnvirons(labels) == [{"USE_BAZEL_VERSION"} -> labels]
InitLabel ==
    /\ ancestors = <<[WORKSPACE |-> FALSE, bazelversion |-> "absent", contents |-> EMPTY]>>
    /\ directive = Pending
    /\ ResolveInit /\ AcquireIdle
    /\ plan = NoPlan
    /\ tools = NoWrapper
    /\ launcher = NewLauncher
    /\ child = NoChild
    /\ \/ /\ environ \in {<< >>} \cup LabelEnvirons(SymbolicLabels)
          /\ endpoint \in Catalogs
          /\ platform = LinuxHost
       \/ /\ environ \in LabelEnvirons(ExplicitVersions)
          /\ endpoint = << >>
          /\ platform \in Platforms
NextLabel ==
    \/ Decide
    \/ /\ directive.exc = "none"
       /\ call = NoCall
       /\ ResolveExplicit(directive.value)
    \/ /\ directive.exc = "none"
       /\ call = NoCall
       /\ directive.value = LATEST
       /\ ResolveFetch(endpoint)
    \/ Plan
SpecLabel == InitLabel /\ [][NextLabel]_vars

\* ------------------------------------------------------------------ claims

\* The steps of verify_authenticity between try: and the end of finally:.
InTryBlock == {"debug", "ownertrust", "import", "gpg_verify", "finally"}

\* C1: with two invocations racing for the same version and directory, the
\* entry at binary_path is absent or a fully written binary, and no
\* invocation is broken by the other: none finds the file it is about to
\* rename, unlink or chmod gone.
C1_RacingInvocationsAreSafe ==
    /\ directory["binary_path"] # 0
           => IsWhole(inode[directory["binary_path"]].data, "binary")
    /\ \A p \in Procs :
           proc[p].pc = "raised" => proc[p].line \notin {273, 275, 277}

\* C2: in every state of an acquisition, failed downloads and failed
\* verifications included, a file at binary_path was put there by renaming
\* the staging file after verify_authenticity returned True, and it is a
\* whole download, never a partial one.
C2_BinaryOnlyByVerifiedRename ==
    directory["binary_path"] # 0
        => /\ binary_origin \in {"verified", "skipped"}
           /\ IsWhole(inode[directory["binary_path"]].data, "binary")

\* C2 witness: the binary was promoted by an invocation that followed one
\* that ended without promoting it.
C2_Witness ==
    /\ directory["binary_path"] # 0
    /\ directory["untrusted_binary_path"] = 0
    /\ \E p \in Procs : proc[p].pc = "chmod" /\ proc[p].runs >= 1
                        /\ proc[p].authentic \in {"verified", "skipped"}

\* C3: an invocation that called verify_authenticity on a host with gpg,
\* with a signature that does not validate the binary, ends by exiting with
\* status 2, the file at binary_path absent and the staging file removed.
C3_InvalidSignatureExitsWith2 ==
    \A p \in Procs :
        (host.gpg = "ok" /\ proc[p].valid = "invalid" /\ proc[p].pc \in Terminal)
            => /\ proc[p].pc = "exited"
               /\ proc[p].status = AUTHENTICATION_FAILURE_EXIT_CODE
               /\ directory["binary_path"] = 0
               /\ directory["untrusted_binary_path"] = 0

\* C4: on a host without gpg verify_authenticity returns True (a soft pass):
\* once it was called, the invocation has not raised and goes on to promote
\* the binary.
C4_AbsentGpgIsSoftPass ==
    \A p \in Procs :
        (host.gpg = "absent" /\ proc[p].valid # "unknown")
            => /\ proc[p].pc # "raised"
               /\ proc[p].authentic = "skipped"

\* C5: after an acquisition in which gpg verified the binary and signature,
\* the file at binary_path exists and is executable, and neither the staging
\* file nor the trust-store directory exists.
C5_VerifiedBinaryIsInstalled ==
    \A p \in Procs :
        (proc[p].pc = "returned" /\ proc[p].authentic = "verified")
            => /\ directory["binary_path"] # 0
               /\ inode[directory["binary_path"]].mode = "rwxr-xr-x"
               /\ directory["untrusted_binary_path"] = 0
               /\ ~proc[p].tempdir.exists

\* C5 witness: an invocation returned after gpg verified its download.
C5_Witness ==
    \E p \in Procs :
        /\ proc[p].pc = "returned"
        /\ proc[p].authentic = "verified"
        /\ proc[p].valid = "valid"

\* C6: a trust-store directory exists only while verify_authenticity is
\* inside its try block: it is gone when the function has returned True or
\* False or has raised.
C6_TempdirOnlyInsideTry ==
    \A p \in Procs : proc[p].tempdir.exists => proc[p].pc \in InTryBlock

\* C6 witness: verify_authenticity raised from inside the try block, after
\* the directory was made, and the directory is gone.
C6_Witness ==
    \E p \in Procs :
        /\ proc[p].pc = "raised"
        /\ proc[p].line = 203
        /\ ~proc[p].tempdir.exists

\* The directive the precedence rule names: a present, non-empty override;
\* else the trimmed pin file of the workspace root; else 'latest'.
RuleDirective(env, dirs) ==
    LET workspace_root == find_workspace_root(dirs, 1)
    IN  IF "USE_BAZEL_VERSION" \in DOMAIN env /\ env["USE_BAZEL_VERSION"] # EMPTY
        THEN env["USE_BAZEL_VERSION"]
        ELSE IF workspace_root # 0 /\ dirs[workspace_root].bazelversion = "file"
             THEN Strip(dirs[workspace_root].contents)
             ELSE LATEST

\* C7: whenever decide_which_bazel_version_to_use returns, it returns the
\* directive of the precedence rule: the override if present and non-empty,
\* else the trimmed .bazelversion of the workspace root, else 'latest'; a
\* present but empty override does not win.
C7_DirectiveFollowsPrecedence ==
    directive.exc = "none" => directive.value = RuleDirective(environ, ancestors)

\* C8: a 'latest' resolution that begins with a cache file less than an hour
\* old makes no request and returns what the file holds; one that begins with
\* no cache file makes exactly one request; and while the cache file is less
\* than an hour old no request has been made since the one that filled it.
C8_FreshCacheMakesNoRequest ==
    /\ call.version = LATEST =>
         /\ ( /\ call.cache_before.exists
              /\ call.at - call.cache_before.mtime >= 0
              /\ call.at - call.cache_before.mtime < ONE_HOUR )
            => ( /\ urlopens = call.urlopens_before
                 /\ call.exc = "none"
                 /\ call.value = call.cache_before.contents )
         /\ ~call.cache_before.exists
            => (call.via = "fetch" /\ urlopens = call.urlopens_before + 1)
    /\ ( /\ latest_cache.exists
         /\ now - latest_cache.mtime >= 0
         /\ now - latest_cache.mtime < ONE_HOUR )
       => urlopens = latest_cache.request

\* C8 witness: 'latest' was answered from a cache file filled 1799 seconds
\* or more before, by the only request made so far.
C8_Witness ==
    /\ call.version = LATEST
    /\ call.via = "cache"
    /\ call.at - call.cache_before.mtime > 0
    /\ call.value = call.cache_before.contents
    /\ urlopens = 1

\* The numeric prefix of a tag (its leading integer components) and the
\* number of its rc suffix (0 for a bare release).
RECURSIVE NumericPrefix(_)
NumericPrefix(components) ==
    IF components = << >> \/ components[1].type # "int" THEN << >>
    ELSE <<components[1].int>> \o NumericPrefix(Tail(components))

HasRc(tag) ==
    \E i \in 1..Len(LooseVersionParse(tag)) : LooseVersionParse(tag)[i].type = "str"

RcNumber(tag) ==
    LET components == LooseVersionParse(tag)
    IN  IF HasRc(tag) THEN components[Len(components)].int ELSE 0

RECURSIVE NumbersLess(_, _)
NumbersLess(a, b) ==
    IF b = << >> THEN FALSE
    ELSE IF a = << >> THEN TRUE
    ELSE IF a[1] = b[1] THEN NumbersLess(Tail(a), Tail(b))
    ELSE a[1] < b[1]

\* The version-aware order of the catalog: dotted numbers compare as numbers,
\* and a tag with an rc suffix is older than the bare release of the same
\* numeric prefix.
VersionOlder(a, b) ==
    LET pa == NumericPrefix(LooseVersionParse(a))
        pb == NumericPrefix(LooseVersionParse(b))
    IN  \/ NumbersLess(pa, pb)
        \/ /\ pa = pb
           /\ \/ HasRc(a) /\ ~HasRc(b)
              \/ HasRc(a) /\ HasRc(b) /\ RcNumber(a) < RcNumber(b)

\* The first element of the catalog ordered descending by VersionOlder.
NewestRelease(releases) ==
    LET tags == {releases[i].tag_name : i \in {j \in 1..Len(releases) : ~releases[j].prerelease}}
    IN  CHOOSE t \in tags : \A u \in tags \ {t} : VersionOlder(u, t)

\* C9: 'latest', resolved from a response of the releases endpoint, is the
\* first element of the catalog ordered descending by the version-aware
\* order, in which an rc tag is older than the bare release of its prefix.
C9_LatestIsNewestRelease ==
    (call.via = "fetch" /\ call.exc = "none")
        => call.value = NewestRelease(call.releases)

\* C10: the version 'latest' resolves to from a response is the tag of an
\* entry whose prerelease flag is false, and of no entry flagged prerelease.
C10_LatestIsNoPrerelease ==
    (call.via = "fetch" /\ call.exc = "none")
        => /\ \E i \in 1..Len(call.releases) :
                 /\ call.releases[i].tag_name = call.value
                 /\ ~call.releases[i].prerelease
           /\ \A i \in 1..Len(call.releases) :
                 call.releases[i].prerelease => call.releases[i].tag_name # call.value

\* C10 witness: 'latest' was resolved from a response holding a prerelease
\* that LooseVersion orders above the version returned.
C10_Witness ==
    /\ call.via = "fetch"
    /\ call.exc = "none"
    /\ \E i \in 1..Len(call.releases) :
          /\ call.releases[i].prerelease
          /\ LooseVersionCmp(call.releases[i].tag_name, call.value) = "gt"

\* C11: an invocation of download_bazel_into_directory that finds the file at
\* binary_path makes no call of urlopen and no call of verify_authenticity;
\* it goes to line 277 and returns binary_path, the same path the invocation
\* before it returned.
C11_CacheHitIsIdempotent ==
    \A p \in Procs :
        proc[p].hit
            => /\ proc[p].downloads = 0
               /\ proc[p].valid = "unknown"
               /\ proc[p].authentic = "unknown"
               /\ ~proc[p].tempdir.exists
               /\ proc[p].pc \in {"chmod", "returned"}
               /\ proc[p].pc = "returned"
                      => /\ proc[p].result = "binary_path"
                         /\ proc[p].earlier \in {"none", proc[p].result}

\* C11 witness: the third invocation in a row found the binary cached and
\* returned the path the second one had returned.
C11_Witness ==
    \E p \in Procs :
        /\ proc[p].hit
        /\ proc[p].runs = 2
        /\ proc[p].pc = "returned"
        /\ proc[p].earlier = proc[p].result
        /\ proc[p].downloads = 0

\* C12: once the child is started, the launcher ends only after the child
\* has ended, however many KeyboardInterrupts were raised inside p.wait():
\* each is caught and p.wait() is called again. When it ends, main returns
\* what p.wait() returned, and the exit status of the launcher is the exit
\* code of a child that exited.
C12_LauncherOutlivesChild ==
    (child.state # "none" /\ launcher.pc \in {"returned", "raised"} /\ ~launcher.outside)
        => /\ child.state \in {"exited", "signaled"}
           /\ launcher.pc = "returned"
           /\ launcher.value = Returncode(child)
           /\ child.state = "exited" => launcher.status = child.code

\* C12 witness: the launcher returned a non-zero exit code of the child
\* after MaxInterrupts interrupted waits.
C12_Witness ==
    /\ launcher.pc = "returned"
    /\ launcher.interrupts = MaxInterrupts
    /\ child.state = "exited"
    /\ child.code = 8
    /\ launcher.status = 8

\* The exit status of the launcher process (-1: it has not exited).
LauncherStatus == IF launcher.status # -1 THEN launcher.status ELSE proc[1].status

\* C13: the launcher process exits with status 2 only when gpg was there to
\* run and verify_authenticity returned False.
C13_Status2OnlyForAuthenticationFailure ==
    LauncherStatus = AUTHENTICATION_FAILURE_EXIT_CODE
        => /\ host.gpg = "ok"
           /\ proc[1].authentic = "rejected"

\* The test of the wrapper: tools/bazel exists, is executable and is not the
\* launcher's own file.
WrapperApplies(t) == t.exists /\ t.executable /\ ~t.self

\* C16: what the launcher starts is the wrapper tools/bazel, with the path
\* of the resolved binary in its environment, when the wrapper exists, is
\* executable and is not the launcher's own file; otherwise the cached binary.
C16_WrapperIsDelegatedTo ==
    child.state # "none"
        => IF WrapperApplies(tools)
           THEN child.program = "wrapper" /\ child.bazel_real
           ELSE child.program = "bazel_path"

\* The artifact of a version on a platform: the URLs lines 264-265 give.
ArtifactOf(version, plat) ==
    determine_urls(version, determine_bazel_filename(version, plat).value)

\* C14: for a non-empty release history, the label 'latest-0' resolves to
\* the version 'latest' resolves to from that history, and the URLs planned
\* for it are the URLs of that version.
C14_LatestZeroIsLatest ==
    (call.version = LATEST_0 /\ ReleaseTags(endpoint) # << >>)
        => /\ call.exc = "none"
           /\ call.value = resolve_latest_version(endpoint).value
           /\ plan # NoPlan => plan = ArtifactOf(resolve_latest_version(endpoint).value, platform)

\* A label 'latest-N', and its N.
IsOffsetLabel(label) ==
    /\ Len(label) > Len(LATEST) + 1
    /\ SubSeq(label, 1, Len(LATEST) + 1) = LATEST \o DASH
    /\ \A i \in (Len(LATEST) + 2)..Len(label) : IsDigit(label[i])
Offset(label) == IntOf(From(label, Len(LATEST) + 2))

\* C15: resolving 'latest-N' with N at least the number of releases in the
\* history raises ConfigurationError: no value is returned (none is taken
\* from inside the history either) and lines 264-265 are not reached, so no
\* download starts.
C15_OffsetOutOfRangeIsAnError ==
    (IsOffsetLabel(call.version) /\ Offset(call.version) >= Len(ReleaseTags(endpoint)))
        => /\ call.exc = "ConfigurationError"
           /\ call.value = EMPTY
           /\ plan = NoPlan

\* The numeric prefix of an explicit version (its leading digits and dots)
\* and what follows it.
RECURSIVE PrefixLength(_)
PrefixLength(s) ==
    IF s # << >> /\ (IsDigit(s[1]) \/ s[1] = ".") THEN 1 + PrefixLength(Tail(s)) ELSE 0
PrefixOf(version) == SubSeq(version, 1, PrefixLength(version))
SuffixOf(version) == From(version, PrefixLength(version) + 1)

\* C18: for a version <numericPrefix> or <numericPrefix>rc<N>, N of one or
\* more digits, determine_urls returns the binary URL
\* https://releases.bazel.build/<numericPrefix>/<segment>/<filename>, the
\* segment being rc<N> with every digit of N, or 'release' without a suffix,
\* and the signature URL is the binary URL with '.sig' appended.
C18_UrlNamesTheWholeRcNumber ==
    (call.value \in ExplicitVersions /\ plan # NoPlan /\ plan.line # 264)
        => /\ plan.exc = "none"
           /\ plan.binary_url =
                  RELEASES_HOST \o PrefixOf(call.value) \o SLASH
                  \o (IF SuffixOf(call.value) = EMPTY THEN RELEASE ELSE SuffixOf(call.value))
                  \o SLASH \o plan.bazel_filename
           /\ plan.signature_url = plan.binary_url \o SIG

\* The pin file can be read: a workspace root is found and its .bazelversion
\* is a file.
PinIsFile(dirs) ==
    LET workspace_root == find_workspace_root(dirs, 1)
    IN  workspace_root # 0 /\ dirs[workspace_root].bazelversion = "file"

\* C17: decide_which_bazel_version_to_use never raises, and without an
\* override it returns 'latest' whenever there is no workspace root, no
\* .bazelversion in it, or a .bazelversion that cannot be read as a file.
C17_PinDiscoveryNeverRaises ==
    directive # Pending
        => /\ directive.exc = "none"
           /\ ("USE_BAZEL_VERSION" \notin DOMAIN environ /\ ~PinIsFile(ancestors))
                  => directive.value = LATEST

\* C19: an invocation that finds a staging file of an earlier one, and no
\* file at binary_path, never promotes that file as it stands: when it is
\* about to rename, and after it has renamed, the file is the download this
\* invocation made (two urlopen calls, binary and signature), and
\* verify_authenticity was called on it and returned True.
C19_StaleStagingIsRewritten ==
    \A p \in Procs :
        (proc[p].stale /\ ~proc[p].hit)
            => /\ proc[p].pc = "rename"
                      => /\ proc[p].downloads = 2
                         /\ proc[p].valid # "unknown"
                         /\ Contents(directory, inode, "untrusted_binary_path")
                                = Blob("binary", proc[p].got)
               /\ proc[p].pc \in {"chmod", "returned"}
                      => /\ proc[p].downloads = 2
                         /\ proc[p].valid # "unknown"
                         /\ proc[p].authentic \in {"verified", "skipped"}
                         /\ Contents(directory, inode, "binary_path")
                                = Blob("binary", proc[p].got)

\* C19 witness: an invocation found a staging file left behind, downloaded
\* again, had gpg verify the new download and promoted it.
C19_Witness ==
    \E p \in Procs :
        /\ proc[p].stale
        /\ ~proc[p].hit
        /\ proc[p].pc = "returned"
        /\ proc[p].got = "good"
        /\ proc[p].authentic = "verified"
        /\ directory["untrusted_binary_path"] = 0

\* C20: a resolution of 'latest' that needed a request (no cache file, or a
\* stale one) and failed, in urlopen or in reading the response, returns no
\* version and leaves the cache file as it was: none is created, a stale one
\* keeps its contents and modification time, and the cache is still not
\* fresh, so that the next resolution makes a request again.
C20_FailedFetchLeavesCache ==
    (call.via = "fetch" /\ call.exc # "none")
        => /\ call.value = EMPTY
           /\ latest_cache = call.cache_before
           /\ ~CacheIsFresh(latest_cache, now)

\* C20 witness: a request failed while a stale cache file was there, and
\* the file is still there.
C20_Witness ==
    /\ call.via = "fetch"
    /\ call.exc # "none"
    /\ call.cache_before.exists
    /\ latest_cache.exists
    /\ latest_cache.mtime = call.cache_before.mtime

====
